---- MODULE Spec2Model ----
(***************************************************************************)
(* Model of scripts/load_physiological_data.py: the command-line run       *)
(* (main), the loader (EmpaticaDataLoader) with its quality classifier,    *)
(* signal decoder, record builder, batch uploader and session summarizer,  *)
(* and the two BigQuery tables it appends to.                              *)
(*                                                                         *)
(* Conventions                                                             *)
(*   - Python None is the string "None" where the value is a string, and   *)
(*     a record with is_none = TRUE where the value is a DataFrame.        *)
(*   - instants and durations are integers in microseconds (the            *)
(*     resolution of datetime.timedelta).                                  *)
(*   - a float value is held in 64ths (value * 64), so that the            *)
(*     accelerometer's raw / 64.0 is exact.                                *)
(*   - a DataFrame is the sequence of its rows; a CSV cell is a record     *)
(*     [num, v]: num says whether float() accepts the cell, v is its       *)
(*     number.                                                             *)
(***************************************************************************)
EXTENDS Integers, Sequences, FiniteSets, TLC

VARIABLES
    args,           \* parsed command line (argparse.Namespace)
    roots,          \* disk: state of the three candidate dataset roots
    session_dir,    \* disk: <root>/<session_type> is "absent", a "file" or a "dir"
    fs,             \* disk: entries of <root>/<session_type>: name -> [is_dir, files]
    pc,             \* position of the run
    dataset_root,   \* loader.dataset_root: index of the candidate found, 0 before
    subjects,       \* main: the sorted subject list of a --load-all run
    si,             \* main: index in subjects of the subject being processed
    loaded_count,   \* main: loaded_count
    skipped_count,  \* main: skipped_count
    cur,            \* load_subject_session: subject_id
    should_skip,    \* load_subject_session: should_skip
    reason,         \* load_subject_session: reason
    sig_i,          \* load_subject_session: index of the signal file in turn
    all_data,       \* load_subject_session: all_data, a list of DataFrames
    combined_df,    \* load_subject_session: combined_df
    batch_size,     \* upload_to_bigquery: batch_size
    num_batches,    \* upload_to_bigquery: num_batches
    batch_i,        \* upload_to_bigquery: i
    jobs,           \* BigQuery: the load jobs issued, in order: [table, rows, state]
    result,         \* main: what the last load_subject_session returned
    classified,     \* the subjects should_skip_subject was called for, in order
    summary,        \* stdout: was the "Loading complete" summary printed
    exit_code,      \* process exit status, -1 while running
    error           \* the uncaught exception or usage error that ended the run

vars == <<args, roots, session_dir, fs, pc, dataset_root, subjects, si,
          loaded_count, skipped_count, cur, should_skip, reason, sig_i,
          all_data, combined_df, batch_size, num_batches, batch_i, jobs, result,
          classified, summary, exit_code, error>>

-----------------------------------------------------------------------------
(* Bounds of the model *)

\* sample rows of a well-formed signal file
MaxRows == 2
\* subject directories of a --load-all run
MaxDirs == 2
\* the chunk size load_subject_session passes (50000 in the code), scaled to
\* the record counts the model produces
SessionBatchSize == 4
\* largest chunk size and record count of the stand-alone uploader runs
MaxBatch == 3
MaxRecords == 5

-----------------------------------------------------------------------------
(* Vocabulary *)

None == "None"

SessionTypes == {"STRESS", "AEROBIC", "ANAEROBIC"}

\* every subject the issue table names, and one it does not (S01)
Subjects == {"S01", "S02", "S03", "S06", "S07", "S11", "S12", "S16", "f07", "f14"}

\* the subjects above in the order Python compares strings (code points:
\* upper case before lower case)
SubjectOrder == <<"S01", "S02", "S03", "S06", "S07", "S11", "S12", "S16", "f07", "f14">>

KNOWN_ISSUES ==
    [st \in SessionTypes |->
        CASE st = "STRESS" ->
                [S02 |-> "duplicated_data",
                 f07 |-> "invalid_signals_no_cover_removed",
                 f14 |-> "split_data"]
          [] st = "AEROBIC" ->
                [S03 |-> "incomplete_procedure",
                 S07 |-> "incomplete_procedure",
                 S11 |-> "split_data",
                 S12 |-> "test_not_performed"]
          [] st = "ANAEROBIC" ->
                [S06 |-> "incomplete_procedure",
                 S16 |-> "split_data"]]

HardIssues == {"test_not_performed", "invalid_signals_no_cover_removed"}
SoftIssues == {"incomplete_procedure", "duplicated_data", "split_data"}

\* signal_files, in the insertion order of the dict
SignalOrder == <<"BVP", "EDA", "TEMP", "ACC", "HR", "IBI">>
Signals == {SignalOrder[k] : k \in 1..Len(SignalOrder)}

\* microseconds per second
Micro == 1000000
\* accelerometer device units per g
AccScale == 64

-----------------------------------------------------------------------------
(* QualityClassifier *)

\* the always-skip test left out
should_skip_subject_no_hard(subject_id, session_type, include_problematic) ==
    LET issues == KNOWN_ISSUES[session_type] IN
    IF subject_id \notin DOMAIN issues
    THEN [skip |-> FALSE, reason |-> None]
    ELSE LET issue == issues[subject_id] IN
         IF ~include_problematic
         THEN [skip |-> TRUE,
               reason |-> "Skipped (use --include-problematic to load): " \o issue]
         ELSE [skip |-> FALSE, reason |-> issue]

\* the always-skip test moved under the flag
should_skip_subject_hard_flagged(subject_id, session_type, include_problematic) ==
    LET issues == KNOWN_ISSUES[session_type] IN
    IF subject_id \notin DOMAIN issues
    THEN [skip |-> FALSE, reason |-> None]
    ELSE LET issue == issues[subject_id] IN
         IF ~include_problematic /\ issue \in HardIssues
         THEN [skip |-> TRUE, reason |-> "Excluded: " \o issue]
         ELSE IF ~include_problematic /\ issue \in SoftIssues
         THEN [skip |-> TRUE,
               reason |-> "Skipped (use --include-problematic to load): " \o issue]
         ELSE [skip |-> FALSE, reason |-> issue]

\* the flag ignored: a soft issue is always loaded
should_skip_subject_no_flag(subject_id, session_type, include_problematic) ==
    LET issues == KNOWN_ISSUES[session_type] IN
    IF subject_id \notin DOMAIN issues
    THEN [skip |-> FALSE, reason |-> None]
    ELSE LET issue == issues[subject_id] IN
         IF issue \in HardIssues
         THEN [skip |-> TRUE, reason |-> "Excluded: " \o issue]
         ELSE [skip |-> FALSE, reason |-> issue]

\* returns (should_skip, reason)
should_skip_subject(subject_id, session_type, include_problematic) ==
    LET issues == KNOWN_ISSUES[session_type] IN
    IF subject_id \notin DOMAIN issues
    THEN [skip |-> FALSE, reason |-> None]
    ELSE LET issue == issues[subject_id] IN
         IF issue \in HardIssues
         THEN [skip |-> TRUE, reason |-> "Excluded: " \o issue]
         ELSE IF ~include_problematic /\ issue \in SoftIssues
         THEN [skip |-> TRUE,
               reason |-> "Skipped (use --include-problematic to load): " \o issue]
         ELSE [skip |-> FALSE, reason |-> issue]

-----------------------------------------------------------------------------
(* DatasetLocator *)

\* a path exists as a directory, as a regular file, or not at all
PathStates == {"absent", "file", "dir"}

\* a candidate root is "absent", "no_marker" (exists, has no STRESS) or "ok"
RootStates == {"absent", "no_marker", "ok"}

\* the search taking the last candidate that qualifies
find_dataset_root_last(r) ==
    IF \E k \in 1..Len(r) : r[k] = "ok"
    THEN CHOOSE k \in 1..Len(r) : r[k] = "ok" /\ \A j \in (k + 1)..Len(r) : r[j] # "ok"
    ELSE 0

\* index of the first candidate that exists and holds STRESS; 0 stands for
\* the FileNotFoundError raised when none does
find_dataset_root(r) ==
    IF \E k \in 1..Len(r) : r[k] = "ok"
    THEN CHOOSE k \in 1..Len(r) : r[k] = "ok" /\ \A j \in 1..(k - 1) : r[j] # "ok"
    ELSE 0

-----------------------------------------------------------------------------
(* Signal files on disk *)

Cell(n) == [num |-> TRUE, v |-> n]
BadCell == [num |-> FALSE, v |-> 0]

\* the session start every well-formed file of the model carries, in seconds
StartSeconds == 100

\* the session start a well-formed file of each signal carries, in seconds:
\* the heart rate, an average over the seconds before, starts later
GoodStart(sig) == IF sig = "HR" THEN StartSeconds + 10 ELSE StartSeconds

\* the sampling rate a well-formed file of each signal carries, in Hz
GoodRate(sig) ==
    CASE sig = "BVP" -> 64
      [] sig = "ACC" -> 32
      [] sig = "HR" -> 1
      [] OTHER -> 4

\* sample row i (0-based) of a well-formed file
GoodRow(sig, i) ==
    CASE sig = "ACC" -> <<Cell(64 * i + 32), Cell(0 - 64), Cell(i + 1)>>
      [] sig = "IBI" -> <<Cell(i * i + 1), Cell(i + 5)>>
      [] sig = "BVP" -> <<Cell(0 - (i + 3))>>
      [] OTHER -> <<Cell(i + 7)>>

GoodRows(sig, n) == [k \in 1..n |-> GoodRow(sig, k - 1)]

FileKinds == {"missing", "garbage", "badcell", "zerorate", "empty", "good"}

\* row 0, column 0 of a file: num and date say whether float() and
\* pd.to_datetime() accept it, v and d are the seconds since the epoch each
\* reads in it (a datetime without zone is taken as UTC)
EpochValue(t) == [num |-> TRUE, v |-> t, date |-> FALSE, d |-> 0]
DatetimeValue(t) == [num |-> FALSE, v |-> 0, date |-> TRUE, d |-> t]
\* a value both accept, and read differently (such as "2013")
AmbiguousValue(t) == [num |-> TRUE, v |-> t, date |-> TRUE, d |-> 2 * t]
GarbageValue == [num |-> FALSE, v |-> 0, date |-> FALSE, d |-> 0]

\* the content of a signal file of each kind:
\*   missing    the file does not exist
\*   garbage    row 0 is neither a number nor a datetime
\*   badcell    the last sample row holds a cell float() rejects
\*   zerorate   row 1 is 0
\*   empty      the two header rows and no sample row
\*   good       MaxRows sample rows
\*   datetime   good, row 0 a datetime string
\*   ambiguous  good, row 0 a number that also reads as a datetime
\*   badrate    good, row 1 a cell float() rejects
FileOfKind(kind, sig) ==
    LET good == [exists |-> TRUE,
                 first_value |-> EpochValue(GoodStart(sig)),
                 rate |-> Cell(GoodRate(sig)),
                 rows |-> GoodRows(sig, MaxRows)]
    IN CASE kind = "missing" -> [good EXCEPT !.exists = FALSE]
         [] kind = "garbage" -> [good EXCEPT !.first_value = GarbageValue]
         [] kind = "badcell" -> [good EXCEPT !.rows[MaxRows][1] = BadCell]
         [] kind = "zerorate" -> [good EXCEPT !.rate = Cell(0)]
         [] kind = "empty" -> [good EXCEPT !.rows = <<>>]
         [] kind = "datetime" -> [good EXCEPT !.first_value = DatetimeValue(GoodStart(sig))]
         [] kind = "ambiguous" -> [good EXCEPT !.first_value = AmbiguousValue(GoodStart(sig))]
         [] kind = "badrate" -> [good EXCEPT !.rate = BadCell]
         [] OTHER -> good

\* base_path / filename, read
ReadFile(subject_id, sig) == FileOfKind(fs[subject_id].files[sig], sig)

-----------------------------------------------------------------------------
(* SignalDecoder *)

ParseFailure(err) ==
    [ok |-> FALSE, err |-> err, start_time |-> 0, sample_rate |-> 0, data |-> <<>>]

\* the datetime string tried first, the number second
parse_empatica_csv_datetime_first(f) ==
    LET fv == f.first_value IN
    IF ~fv.num /\ ~fv.date
    THEN ParseFailure("DataQualityError")
    ELSE IF ~f.rate.num
    THEN ParseFailure("ValueError")
    ELSE [ok |-> TRUE, err |-> None,
          start_time |-> (IF fv.date THEN fv.d ELSE fv.v) * Micro,
          sample_rate |-> f.rate.v, data |-> f.rows]

\* returns (start_time, sample_rate, data), or the exception raised: the
\* start time as a number, else as a datetime, else DataQualityError; then
\* float() of row 1
parse_empatica_csv(f) ==
    LET fv == f.first_value IN
    IF ~fv.num /\ ~fv.date
    THEN ParseFailure("DataQualityError")
    ELSE IF ~f.rate.num
    THEN ParseFailure("ValueError")
    ELSE [ok |-> TRUE, err |-> None,
          start_time |-> (IF fv.num THEN fv.v ELSE fv.d) * Micro,
          sample_rate |-> f.rate.v, data |-> f.rows]

-----------------------------------------------------------------------------
(* RecordBuilder *)

Record(mid, subject_id, session_id, ts, signal_type, value, session_type) ==
    [measurement_id |-> mid,
     subject_id |-> subject_id,
     session_id |-> session_id,
     measurement_timestamp |-> ts,
     signal_type |-> signal_type,
     value |-> value,
     session_type |-> session_type,
     data_quality_flag |-> "VALID"]

\* start_time + timedelta(seconds = i / sample_rate); the rates of the model
\* divide a second into whole microseconds
UniformTimestamp(start_time, i, sample_rate) ==
    start_time + (i * Micro) \div sample_rate

AccAxes == <<"ACC_X", "ACC_Y", "ACC_Z">>

\* float() accepts the first ncols cells of the row
RowOk(row, ncols) == Len(row) >= ncols /\ \A c \in 1..ncols : row[c].num

\* does the expansion of the decoded data raise (ZeroDivisionError,
\* ValueError, IndexError)
ExpansionRaises(signal_type, sample_rate, data) ==
    CASE signal_type = "ACC" ->
            Len(data) > 0 /\ (sample_rate = 0 \/ \E i \in 1..Len(data) : ~RowOk(data[i], 3))
      [] signal_type = "IBI" ->
            \E i \in 1..Len(data) : ~RowOk(data[i], 2)
      [] OTHER ->
            Len(data) > 0 /\ (sample_rate = 0 \/ \E i \in 1..Len(data) : ~RowOk(data[i], 1))

\* the accelerometer value left in device units
ExpandRecords_acc_unscaled(signal_type, subject_id, session_id, session_type, start_time, sample_rate, data) ==
    CASE signal_type = "ACC" ->
            [k \in 1..(3 * Len(data)) |->
                LET i == (k - 1) \div 3
                    col == ((k - 1) % 3) + 1
                IN Record(session_id \o "_" \o AccAxes[col] \o "_" \o ToString(i),
                          subject_id, session_id,
                          UniformTimestamp(start_time, i, sample_rate),
                          AccAxes[col],
                          data[i + 1][col].v * 64,
                          session_type)]
      [] signal_type = "IBI" ->
            [k \in 1..Len(data) |->
                Record(session_id \o "_IBI_" \o ToString(k - 1),
                       subject_id, session_id,
                       start_time + data[k][1].v * Micro,
                       "IBI",
                       data[k][2].v * 64,
                       session_type)]
      [] OTHER ->
            [k \in 1..Len(data) |->
                Record(session_id \o "_" \o signal_type \o "_" \o ToString(k - 1),
                       subject_id, session_id,
                       UniformTimestamp(start_time, k - 1, sample_rate),
                       signal_type,
                       data[k][1].v * 64,
                       session_type)]

\* the records of the decoded data, row after row
ExpandRecords(signal_type, subject_id, session_id, session_type, start_time, sample_rate, data) ==
    CASE signal_type = "ACC" ->
            [k \in 1..(3 * Len(data)) |->
                LET i == (k - 1) \div 3
                    col == ((k - 1) % 3) + 1
                IN Record(session_id \o "_" \o AccAxes[col] \o "_" \o ToString(i),
                          subject_id, session_id,
                          UniformTimestamp(start_time, i, sample_rate),
                          AccAxes[col],
                          (data[i + 1][col].v * 64) \div AccScale,
                          session_type)]
      [] signal_type = "IBI" ->
            [k \in 1..Len(data) |->
                Record(session_id \o "_IBI_" \o ToString(k - 1),
                       subject_id, session_id,
                       start_time + data[k][1].v * Micro,
                       "IBI",
                       data[k][2].v * 64,
                       session_type)]
      [] OTHER ->
            [k \in 1..Len(data) |->
                Record(session_id \o "_" \o signal_type \o "_" \o ToString(k - 1),
                       subject_id, session_id,
                       UniformTimestamp(start_time, k - 1, sample_rate),
                       signal_type,
                       data[k][1].v * 64,
                       session_type)]

\* returns the DataFrame of the file's records, or raises
process_single_signal(f, subject_id, session_id, signal_type, session_type) ==
    LET p == parse_empatica_csv(f) IN
    IF ~p.ok THEN [ok |-> FALSE, df |-> <<>>]
    ELSE IF ExpansionRaises(signal_type, p.sample_rate, p.data)
    THEN [ok |-> FALSE, df |-> <<>>]
    ELSE [ok |-> TRUE,
          df |-> ExpandRecords(signal_type, subject_id, session_id, session_type,
                               p.start_time, p.sample_rate, p.data)]

-----------------------------------------------------------------------------
(* Helpers of the run *)

RECURSIVE Concat(_)
\* pd.concat(all_data, ignore_index=True)
Concat(dfs) == IF dfs = <<>> THEN <<>> ELSE Head(dfs) \o Concat(Tail(dfs))

RECURSIVE SortedNames(_, _)
\* sorted(names): the names of the set, in SubjectOrder
SortedNames(names, k) ==
    IF k > Len(SubjectOrder) THEN <<>>
    ELSE (IF SubjectOrder[k] \in names THEN <<SubjectOrder[k]>> ELSE <<>>)
         \o SortedNames(names, k + 1)

\* f"{subject_id}_{session_type}"
SessionId(subject_id, session_type) == subject_id \o "_" \o session_type

\* subject_id.startswith('S')
StartsWithS(subject_id) ==
    subject_id \in {"S01", "S02", "S03", "S06", "S07", "S11", "S12", "S16"}

SeqMin(s) == CHOOSE x \in {s[k] : k \in 1..Len(s)} : \A j \in 1..Len(s) : x <= s[j]
SeqMax(s) == CHOOSE x \in {s[k] : k \in 1..Len(s)} : \A j \in 1..Len(s) : x >= s[j]

Timestamps(df) == [k \in 1..Len(df) |-> df[k].measurement_timestamp]

\* seconds per day
SecondsPerDay == 86400

\* the span taken from the first and the last record, as if the records were
\* in time order
SessionRow_first_last(session_id, subject_id, session_type, df, quality_note) ==
    LET min_time == df[1].measurement_timestamp
        max_time == df[Len(df)].measurement_timestamp
    IN [session_id |-> session_id,
        subject_id |-> subject_id,
        session_type |-> session_type,
        protocol_version |-> IF StartsWithS(subject_id) THEN "V1" ELSE "V2",
        session_date |-> (min_time \div Micro) \div SecondsPerDay,
        session_start_time |-> min_time,
        session_end_time |-> max_time,
        duration_minutes |-> max_time - min_time,
        data_quality_notes |-> quality_note]

\* the classifier's note not carried into the row
SessionRow_no_note(session_id, subject_id, session_type, df, quality_note) ==
    LET min_time == SeqMin(Timestamps(df))
        max_time == SeqMax(Timestamps(df))
    IN [session_id |-> session_id,
        subject_id |-> subject_id,
        session_type |-> session_type,
        protocol_version |-> IF StartsWithS(subject_id) THEN "V1" ELSE "V2",
        session_date |-> (min_time \div Micro) \div SecondsPerDay,
        session_start_time |-> min_time,
        session_end_time |-> max_time,
        duration_minutes |-> max_time - min_time,
        data_quality_notes |-> None]

\* the dim_sessions row; duration_minutes is held in units of 1/(60 * Micro)
\* minute, session_date as the day number since the epoch
SessionRow(session_id, subject_id, session_type, df, quality_note) ==
    LET min_time == SeqMin(Timestamps(df))
        max_time == SeqMax(Timestamps(df))
    IN [session_id |-> session_id,
        subject_id |-> subject_id,
        session_type |-> session_type,
        protocol_version |-> IF StartsWithS(subject_id) THEN "V1" ELSE "V2",
        session_date |-> (min_time \div Micro) \div SecondsPerDay,
        session_start_time |-> min_time,
        session_end_time |-> max_time,
        duration_minutes |-> max_time - min_time,
        data_quality_notes |-> quality_note]

\* the division rounded down
NumBatchesFloor(n, b) == n \div b

\* int(np.ceil(len(df) / batch_size))
NumBatches(n, b) == (n + b - 1) \div b

Min(a, b) == IF a <= b THEN a ELSE b

\* df.iloc[start_idx:end_idx] of batch i (0-based)
Batch(df, i, b) == SubSeq(df, i * b + 1, Min((i + 1) * b, Len(df)))

\* the rows the completed load jobs appended to a table, in order
RECURSIVE TableRows(_, _)
\* the rows of a table whose jobs replace its content (WRITE_TRUNCATE): those
\* of the last job done
TableRows_truncate(js, table) ==
    LET done == {k \in 1..Len(js) : js[k].table = table /\ js[k].state = "done"} IN
    IF done = {} THEN <<>>
    ELSE js[CHOOSE k \in done : \A j \in done : j <= k].rows

TableRows(js, table) ==
    IF js = <<>> THEN <<>>
    ELSE (IF Head(js).table = table /\ Head(js).state = "done"
          THEN Head(js).rows ELSE <<>>)
         \o TableRows(Tail(js), table)

FactTable == "fact_physiological_measurements"
DimTable == "dim_sessions"

-----------------------------------------------------------------------------
(* The disks and command lines the model starts from *)

UniformLayout(kind) == [s \in Signals |-> kind]
OneOff(base, sig, kind) == [s \in Signals |-> IF s = sig THEN kind ELSE base]

\* a subject directory: every file of one kind, or every file good or
\* missing but one, of any kind
Layouts ==
    {UniformLayout(kind) : kind \in FileKinds}
      \cup {OneOff(base, sig, kind) :
                base \in {"good", "missing"}, sig \in Signals, kind \in FileKinds}

Directory(layout) == [is_dir |-> TRUE, files |-> layout]
\* an entry of the session directory that is a regular file
PlainFile == [is_dir |-> FALSE, files |-> UniformLayout("missing")]

NoEntries == [n \in {} |-> PlainFile]

\* the entries of the session directory for a single-subject run: the other
\* directories are never read
OneDatasets(subject_id) ==
    {NoEntries}
      \cup {[n \in {subject_id} |-> e] : e \in {Directory(l) : l \in Layouts} \cup {PlainFile}}

\* the entries of the session directory for a --load-all run
BatchSubjects == {"S01", "S02", "S12", "f07"}
BatchEntries ==
    {Directory(OneOff("missing", "ACC", "good")),
     Directory(OneOff("missing", "HR", "empty")),
     Directory(UniformLayout("missing")),
     PlainFile}
BatchDatasets ==
    UNION {[names -> BatchEntries] :
              names \in {d \in SUBSET BatchSubjects : Cardinality(d) <= MaxDirs}}

AllAbsent == <<"absent", "absent", "absent">>
SecondRoot == <<"no_marker", "ok", "ok">>

NoDf == [is_none |-> TRUE, df |-> <<>>]
Df(df) == [is_none |-> FALSE, df |-> df]

\* the state of the process when main() has parsed its arguments
Start ==
    /\ pc = "construct"
    /\ dataset_root = 0
    /\ subjects = <<>>
    /\ si = 0
    /\ loaded_count = 0
    /\ skipped_count = 0
    /\ cur = None
    /\ should_skip = FALSE
    /\ reason = None
    /\ sig_i = 0
    /\ all_data = <<>>
    /\ combined_df = <<>>
    /\ batch_size = 0
    /\ num_batches = 0
    /\ batch_i = 0
    /\ jobs = <<>>
    /\ result = NoDf
    /\ classified = <<>>
    /\ summary = FALSE
    /\ exit_code = -1
    /\ error = None

\* the STRESS directory is the marker of a dataset root
DiskConsistent ==
    /\ (find_dataset_root(roots) # 0 /\ args.session_type = "STRESS") =>
          session_dir # "absent"
    /\ session_dir # "dir" => fs = NoEntries
    \* the first two candidates lie under the third
    /\ roots[3] = "absent" => roots[1] = "absent" /\ roots[2] = "absent"

\* neither --subject nor --load-all
InitUsage ==
    /\ args \in [session_type : SessionTypes, subject : {None},
                 load_all : {FALSE}, include_problematic : BOOLEAN]
    /\ roots \in [1..3 -> RootStates]
    /\ session_dir \in PathStates
    /\ fs \in {NoEntries, [n \in {"S01"} |-> Directory(UniformLayout("good"))]}

\* --subject
InitOne ==
    /\ args \in [session_type : SessionTypes, subject : Subjects,
                 load_all : {FALSE}, include_problematic : BOOLEAN]
    /\ roots \in {AllAbsent, SecondRoot}
    /\ session_dir \in PathStates
    /\ fs \in OneDatasets(args.subject)

\* --load-all, with or without --subject
InitAll ==
    /\ args \in [session_type : SessionTypes, subject : {None, "S01"},
                 load_all : {TRUE}, include_problematic : BOOLEAN]
    /\ roots \in {AllAbsent, SecondRoot}
    /\ session_dir \in PathStates
    /\ fs \in BatchDatasets

Init ==
    /\ InitUsage \/ InitOne \/ InitAll
    /\ DiskConsistent
    /\ Start

-----------------------------------------------------------------------------
(* The run *)

\* an uncaught exception, or sys.exit(1), ends the process
Halt(code, err) ==
    /\ pc' = "halt"
    /\ exit_code' = code
    /\ error' = err

disk == <<args, roots, session_dir, fs>>
main_vars == <<subjects, si, loaded_count, skipped_count, summary>>
session_vars == <<cur, should_skip, reason, sig_i, all_data, combined_df, result, classified>>
upload_vars == <<batch_size, num_batches, batch_i>>

\* loader = EmpaticaDataLoader(): __init__ and _find_dataset_root
Construct ==
    /\ pc = "construct"
    /\ LET found == find_dataset_root(roots) IN
       IF found = 0
       THEN /\ Halt(1, "FileNotFoundError")
            /\ UNCHANGED dataset_root
       ELSE /\ dataset_root' = found
            /\ pc' = "dispatch"
            /\ UNCHANGED <<exit_code, error>>
    /\ UNCHANGED <<disk, main_vars, session_vars, upload_vars, jobs>>

\* if args.load_all: list and sort the subject directories
DispatchAll ==
    /\ pc = "dispatch"
    /\ args.load_all
    /\ IF session_dir # "dir"
       THEN /\ Halt(1, IF session_dir = "absent" THEN "FileNotFoundError"
                                                  ELSE "NotADirectoryError")
            /\ UNCHANGED <<subjects, si, loaded_count, skipped_count>>
       ELSE /\ subjects' = SortedNames({n \in DOMAIN fs : fs[n].is_dir}, 1)
            /\ si' = 0
            /\ loaded_count' = 0
            /\ skipped_count' = 0
            /\ pc' = "loop"
            /\ UNCHANGED <<exit_code, error>>
    /\ UNCHANGED <<disk, dataset_root, summary, session_vars, upload_vars, jobs>>

\* elif args.subject: the call of load_subject_session
DispatchOne ==
    /\ pc = "dispatch"
    /\ ~args.load_all
    /\ args.subject # None
    /\ cur' = args.subject
    /\ pc' = "session"
    /\ UNCHANGED <<disk, dataset_root, main_vars, should_skip, reason, sig_i,
                   all_data, combined_df, result, classified, upload_vars, jobs,
                   exit_code, error>>

\* else: the usage error and sys.exit(1)
DispatchUsage ==
    /\ pc = "dispatch"
    /\ ~args.load_all
    /\ args.subject = None
    /\ Halt(1, "usage")
    /\ UNCHANGED <<disk, dataset_root, main_vars, session_vars, upload_vars, jobs>>

\* for subject_id in subjects: the call of load_subject_session
LoopNext ==
    /\ pc = "loop"
    /\ si < Len(subjects)
    /\ si' = si + 1
    /\ cur' = subjects[si + 1]
    /\ pc' = "session"
    /\ UNCHANGED <<disk, dataset_root, subjects, loaded_count, skipped_count,
                   summary, should_skip, reason, sig_i, all_data, combined_df,
                   result, classified, upload_vars, jobs, exit_code, error>>

\* the loop is over: the summary is printed and main returns
LoopEnd ==
    /\ pc = "loop"
    /\ si = Len(subjects)
    /\ summary' = TRUE
    /\ Halt(0, None)
    /\ UNCHANGED <<disk, dataset_root, subjects, si, loaded_count, skipped_count,
                   session_vars, upload_vars, jobs>>

\* load_subject_session returns to main
Return(res) ==
    /\ result' = res
    /\ pc' = "returned"

\* load_subject_session, to the first signal file: the classifier and the
\* existence of the subject directory
BeginSession ==
    /\ pc = "session"
    /\ classified' = Append(classified, cur)
    /\ LET c == should_skip_subject(cur, args.session_type, args.include_problematic) IN
       /\ should_skip' = c.skip
       /\ reason' = c.reason
       /\ IF c.skip
          THEN /\ Return(NoDf)
               /\ UNCHANGED <<sig_i, all_data>>
          ELSE IF ~(session_dir = "dir" /\ cur \in DOMAIN fs)
          THEN /\ Return(NoDf)
               /\ UNCHANGED <<sig_i, all_data>>
          ELSE /\ sig_i' = 1
               /\ all_data' = <<>>
               /\ pc' = "files"
               /\ UNCHANGED result
    /\ UNCHANGED <<disk, dataset_root, main_vars, cur, combined_df, upload_vars,
                   jobs, exit_code, error>>

\* the try around the whole loop instead of its body: the first file that
\* raises ends the loop
ProcessFile_error_ends_loop ==
    /\ pc = "files"
    /\ sig_i <= Len(SignalOrder)
    /\ LET signal_type == SignalOrder[sig_i]
           f == ReadFile(cur, signal_type)
           r == process_single_signal(f, cur, SessionId(cur, args.session_type),
                                      signal_type, args.session_type)
       IN /\ all_data' = IF f.exists /\ r.ok THEN Append(all_data, r.df) ELSE all_data
          /\ sig_i' = IF f.exists /\ ~r.ok THEN Len(SignalOrder) + 1 ELSE sig_i + 1
    /\ UNCHANGED <<disk, pc, dataset_root, main_vars, cur, should_skip, reason,
                   combined_df, result, classified, upload_vars, jobs,
                   exit_code, error>>

\* one turn of the loop over signal_files
ProcessFile ==
    /\ pc = "files"
    /\ sig_i <= Len(SignalOrder)
    /\ LET signal_type == SignalOrder[sig_i]
           f == ReadFile(cur, signal_type)
           r == process_single_signal(f, cur, SessionId(cur, args.session_type),
                                      signal_type, args.session_type)
       IN all_data' = IF f.exists /\ r.ok THEN Append(all_data, r.df) ELSE all_data
    /\ sig_i' = sig_i + 1
    /\ UNCHANGED <<disk, pc, dataset_root, main_vars, cur, should_skip, reason,
                   combined_df, result, classified, upload_vars, jobs,
                   exit_code, error>>

\* after the loop: no data, or the concatenation and the call of
\* upload_to_bigquery, to its loop
Combine ==
    /\ pc = "files"
    /\ sig_i > Len(SignalOrder)
    /\ IF all_data = <<>>
       THEN /\ Return(NoDf)
            /\ UNCHANGED <<combined_df, upload_vars>>
       ELSE /\ combined_df' = Concat(all_data)
            /\ batch_size' = SessionBatchSize
            /\ num_batches' = NumBatches(Len(Concat(all_data)), SessionBatchSize)
            /\ batch_i' = 0
            /\ pc' = "upload"
            /\ UNCHANGED result
    /\ UNCHANGED <<disk, dataset_root, main_vars, cur, should_skip, reason,
                   sig_i, all_data, classified, jobs, exit_code, error>>

LoadJob(table, rows) == [table |-> table, rows |-> rows, state |-> "running"]

\* the last job issued ends in `state`
Finish(js, state) == [js EXCEPT ![Len(js)].state = state]

\* a chunk handed to the store without waiting for the job
UploadIssue_no_wait ==
    /\ pc = "upload"
    /\ batch_i < num_batches
    /\ jobs' = Append(jobs, LoadJob(FactTable, Batch(combined_df, batch_i, batch_size)))
    /\ batch_i' = batch_i + 1
    /\ UNCHANGED <<disk, dataset_root, main_vars, session_vars, batch_size,
                   num_batches, pc, exit_code, error>>

\* upload_to_bigquery, one turn of the loop to the wait:
\* client.load_table_from_dataframe(batch, table_id)
UploadIssue ==
    /\ pc = "upload"
    /\ batch_i < num_batches
    /\ jobs' = Append(jobs, LoadJob(FactTable, Batch(combined_df, batch_i, batch_size)))
    /\ pc' = "upload_wait"
    /\ UNCHANGED <<disk, dataset_root, main_vars, session_vars, upload_vars,
                   exit_code, error>>

\* job.result() returns: the chunk is in the table
UploadJobDone ==
    /\ pc = "upload_wait"
    /\ jobs' = Finish(jobs, "done")
    /\ batch_i' = batch_i + 1
    /\ pc' = "upload"
    /\ UNCHANGED <<disk, dataset_root, main_vars, session_vars, batch_size,
                   num_batches, exit_code, error>>

\* the failure of a chunk caught inside the loop: the next chunk is written
UploadJobFail_next_chunk ==
    /\ pc = "upload_wait"
    /\ jobs' = Finish(jobs, "failed")
    /\ batch_i' = batch_i + 1
    /\ pc' = "upload"
    /\ UNCHANGED <<disk, dataset_root, main_vars, session_vars, batch_size,
                   num_batches, exit_code, error>>

\* the failure of a chunk caught around the subject: load_subject_session
\* returns None and the batch goes on
UploadJobFail_next_subject ==
    /\ pc = "upload_wait"
    /\ jobs' = Finish(jobs, "failed")
    /\ result' = NoDf
    /\ pc' = "returned"
    /\ UNCHANGED <<disk, dataset_root, main_vars, cur, should_skip, reason,
                   sig_i, all_data, combined_df, classified, upload_vars,
                   exit_code, error>>

\* the failure of a chunk caught and logged by the uploader, which returns
\* as if the records were written
UploadJobFail_logged ==
    /\ pc = "upload_wait"
    /\ jobs' = Finish(jobs, "failed")
    /\ pc' = "uploaded"
    /\ UNCHANGED <<disk, dataset_root, main_vars, session_vars, upload_vars,
                   exit_code, error>>

\* job.result() raises: the chunk is not in the table, nothing catches
UploadJobFail ==
    /\ pc = "upload_wait"
    /\ jobs' = Finish(jobs, "failed")
    /\ Halt(1, "UploadFailure")
    /\ UNCHANGED <<disk, dataset_root, main_vars, session_vars, upload_vars>>

\* the loop of upload_to_bigquery is over: it returns
UploadReturn ==
    /\ pc = "upload"
    /\ batch_i >= num_batches
    /\ pc' = "uploaded"
    /\ UNCHANGED <<disk, dataset_root, main_vars, session_vars, upload_vars,
                   jobs, exit_code, error>>

\* create_session_metadata, to the wait; a DataFrame of no record has no
\* measurement_timestamp column
CreateMetadata ==
    /\ pc = "uploaded"
    /\ IF Len(combined_df) = 0
       THEN /\ Halt(1, "KeyError")
            /\ UNCHANGED jobs
       ELSE /\ jobs' = Append(jobs,
                  LoadJob(DimTable,
                          <<SessionRow(SessionId(cur, args.session_type), cur,
                                       args.session_type, combined_df, reason)>>))
            /\ pc' = "metadata_wait"
            /\ UNCHANGED <<exit_code, error>>
    /\ UNCHANGED <<disk, dataset_root, main_vars, session_vars, upload_vars>>

\* job.result() returns: the row is in dim_sessions; return combined_df
MetadataJobDone ==
    /\ pc = "metadata_wait"
    /\ jobs' = Finish(jobs, "done")
    /\ Return(Df(combined_df))
    /\ UNCHANGED <<disk, dataset_root, main_vars, cur, should_skip, reason,
                   sig_i, all_data, combined_df, classified, upload_vars,
                   exit_code, error>>

\* job.result() raises
MetadataJobFail ==
    /\ pc = "metadata_wait"
    /\ jobs' = Finish(jobs, "failed")
    /\ Halt(1, "UploadFailure")
    /\ UNCHANGED <<disk, dataset_root, main_vars, session_vars, upload_vars>>

\* main, after load_subject_session: count and go on, or return
AfterSession ==
    /\ pc = "returned"
    /\ IF args.load_all
       THEN /\ loaded_count' = IF result.is_none THEN loaded_count ELSE loaded_count + 1
            /\ skipped_count' = IF result.is_none THEN skipped_count + 1 ELSE skipped_count
            /\ pc' = "loop"
            /\ UNCHANGED <<exit_code, error>>
       ELSE /\ Halt(0, None)
            /\ UNCHANGED <<loaded_count, skipped_count>>
    /\ UNCHANGED <<disk, dataset_root, subjects, si, summary, session_vars,
                   upload_vars, jobs>>

Next ==
    \/ Construct
    \/ DispatchAll
    \/ DispatchOne
    \/ DispatchUsage
    \/ LoopNext
    \/ LoopEnd
    \/ BeginSession
    \/ ProcessFile
    \/ Combine
    \/ UploadIssue
    \/ UploadJobDone
    \/ UploadJobFail
    \/ UploadReturn
    \/ CreateMetadata
    \/ MetadataJobDone
    \/ MetadataJobFail
    \/ AfterSession

Spec == Init /\ [][Next]_vars

-----------------------------------------------------------------------------
(* The uploader alone: upload_to_bigquery(df, batch_size) on any DataFrame   *)
(* and chunk size, from the top of its loop to its return                    *)

\* the records of a well-formed file of n sample rows
SampleFrame(sig, n) ==
    ExpandRecords(sig, "S01", SessionId("S01", "STRESS"), "STRESS",
                  GoodStart(sig) * Micro, GoodRate(sig), GoodRows(sig, n))

SampleFrames == {SampleFrame(sig, n) : sig \in {"BVP", "IBI"}, n \in 0..MaxRecords}

InitUpload ==
    /\ args = [session_type |-> "STRESS", subject |-> "S01",
               load_all |-> FALSE, include_problematic |-> FALSE]
    /\ roots = SecondRoot
    /\ session_dir = "dir"
    /\ fs = NoEntries
    /\ pc = "upload"
    /\ dataset_root = find_dataset_root(SecondRoot)
    /\ subjects = <<>>
    /\ si = 0
    /\ loaded_count = 0
    /\ skipped_count = 0
    /\ cur = "S01"
    /\ should_skip = FALSE
    /\ reason = None
    /\ sig_i = 0
    /\ all_data = <<>>
    /\ combined_df \in SampleFrames
    /\ batch_size \in 1..MaxBatch
    /\ num_batches = NumBatches(Len(combined_df), batch_size)
    /\ batch_i = 0
    /\ jobs = <<>>
    /\ result = NoDf
    /\ classified = <<>>
    /\ summary = FALSE
    /\ exit_code = -1
    /\ error = None

NextUpload ==
    \/ UploadIssue
    \/ UploadJobDone
    \/ UploadJobFail
    \/ UploadReturn

SpecUpload == InitUpload /\ [][NextUpload]_vars

-----------------------------------------------------------------------------
(* load_subject_session alone, on one subject directory, called again on the
   same directory and the same store *)

\* the number of times the subject-session is loaded
MaxRuns == 2

SessionKinds ==
    {"missing", "garbage", "zerorate", "good", "datetime", "ambiguous", "badrate"}

SessionLayouts ==
    {OneOff(base, sig, kind) :
        base \in {"good", "missing"}, sig \in Signals, kind \in SessionKinds}

InitSession ==
    /\ args = [session_type |-> "STRESS", subject |-> "S01",
               load_all |-> FALSE, include_problematic |-> FALSE]
    /\ roots = SecondRoot
    /\ session_dir = "dir"
    /\ fs \in {[n \in {"S01"} |-> Directory(l)] : l \in SessionLayouts}
    /\ pc = "session"
    /\ dataset_root = find_dataset_root(SecondRoot)
    /\ subjects = <<>>
    /\ si = 0
    /\ loaded_count = 0
    /\ skipped_count = 0
    /\ cur = "S01"
    /\ should_skip = FALSE
    /\ reason = None
    /\ sig_i = 0
    /\ all_data = <<>>
    /\ combined_df = <<>>
    /\ batch_size = 0
    /\ num_batches = 0
    /\ batch_i = 0
    /\ jobs = <<>>
    /\ result = NoDf
    /\ classified = <<>>
    /\ summary = FALSE
    /\ exit_code = -1
    /\ error = None

\* the program run again for the same subject and session type, on the
\* same files and the same store
Rerun ==
    /\ pc = "returned"
    /\ Len(classified) < MaxRuns
    /\ pc' = "session"
    /\ result' = NoDf
    /\ UNCHANGED <<disk, dataset_root, main_vars, cur, should_skip, reason,
                   sig_i, all_data, combined_df, classified, upload_vars, jobs,
                   exit_code, error>>

NextSession ==
    \/ BeginSession
    \/ ProcessFile
    \/ Combine
    \/ UploadIssue
    \/ UploadJobDone
    \/ UploadJobFail
    \/ UploadReturn
    \/ CreateMetadata
    \/ MetadataJobDone
    \/ MetadataJobFail
    \/ Rerun

SpecSession == InitSession /\ [][NextSession]_vars

-----------------------------------------------------------------------------
(* Notions the properties share *)

\* should_skip_subject has been called for the subject in cur
Classified == classified # <<>> /\ classified[Len(classified)] = cur

\* the known issue of a subject-session, None when it has none
IssueOf(subject_id, session_type) ==
    IF subject_id \in DOMAIN KNOWN_ISSUES[session_type]
    THEN KNOWN_ISSUES[session_type][subject_id]
    ELSE None

CurIssue == IssueOf(cur, args.session_type)

\* the load jobs, in whatever state, that carry a row of the subject
WritesFor(subject_id) ==
    {k \in 1..Len(jobs) :
        \E r \in 1..Len(jobs[k].rows) : jobs[k].rows[r].subject_id = subject_id}

\* the rows of the subject in a table
RowsFor(table, subject_id) ==
    SelectSeq(TableRows(jobs, table), LAMBDA r : r.subject_id = subject_id)

\* the subject directory of cur is on disk
CurOnDisk == session_dir = "dir" /\ cur \in DOMAIN fs

\* every signal file of cur has had its turn
FilesDone == Classified /\ ~should_skip /\ CurOnDisk /\ pc # "files"

-----------------------------------------------------------------------------
(* Properties *)

\* C1: a subject-session whose known issue is test_not_performed or
\* invalid_signals_no_cover_removed is never loaded: load_subject_session
\* returns None at once and no load job, to either table, carries a row of
\* it, with and without --include-problematic.
C1_HardIssueNeverLoaded ==
    (Classified /\ CurIssue \in HardIssues) =>
        /\ pc \in {"returned", "loop", "halt"}
        /\ result.is_none
        /\ WritesFor(cur) = {}

\* a hard-issue subject whose directory holds six good files has been
\* through load_subject_session with --include-problematic
C1_Witness ==
    /\ Classified
    /\ CurIssue \in HardIssues
    /\ args.include_problematic
    /\ CurOnDisk
    /\ fs[cur] = Directory(UniformLayout("good"))
    /\ pc = "returned"

\* C2: a subject-session with a soft issue (incomplete_procedure,
\* duplicated_data, split_data): without --include-problematic no load job
\* carries a row of it; with it, when the session has produced at least one
\* record and has returned (every write succeeded), the measurement table
\* holds exactly its records and dim_sessions holds one row of it, whose
\* data_quality_notes is the bare issue tag.
C2_SoftIssueLoadedOnRequest ==
    (Classified /\ CurIssue \in SoftIssues) =>
        /\ ~args.include_problematic => (WritesFor(cur) = {} /\ result.is_none)
        /\ (args.include_problematic /\ FilesDone /\ pc = "returned"
              /\ Len(Concat(all_data)) >= 1) =>
                /\ RowsFor(FactTable, cur) = Concat(all_data)
                /\ Len(RowsFor(DimTable, cur)) = 1
                /\ RowsFor(DimTable, cur)[1].data_quality_notes = CurIssue

\* a soft-issue subject has been loaded with --include-problematic and its
\* metadata row is in dim_sessions
C2_Witness ==
    /\ Classified
    /\ CurIssue = "incomplete_procedure"
    /\ args.include_problematic
    /\ FilesDone
    /\ pc = "returned"
    /\ Len(Concat(all_data)) >= 1
    /\ Len(RowsFor(DimTable, cur)) = 1

\* C3: for a subject with a hard-exclude issue, should_skip_subject returns
\* skip = True whatever include_problematic is.
C3_HardIssueSkips ==
    (Classified /\ CurIssue \in HardIssues) => should_skip

\* the classifier has answered for f07 in STRESS with include_problematic set
C3_Witness ==
    /\ Classified
    /\ cur = "f07"
    /\ CurIssue = "invalid_signals_no_cover_removed"
    /\ args.include_problematic
    /\ should_skip

\* C4: for a subject with a soft-exclude issue, should_skip_subject returns
\* skip = True when include_problematic is false, and skip = False with the
\* issue tag as the note when it is true.
C4_SoftIssueFollowsFlag ==
    (Classified /\ CurIssue \in SoftIssues) =>
        IF args.include_problematic
        THEN ~should_skip /\ reason = CurIssue
        ELSE should_skip

\* the classifier has answered skip = False, note split_data
C4_Witness ==
    /\ Classified
    /\ CurIssue = "split_data"
    /\ args.include_problematic
    /\ ~should_skip
    /\ reason = "split_data"

\* C5: when the write of a chunk of a subject-session fails, the run ends
\* there with the failure uncaught (load_subject_session does not return):
\* the failed job is the last one issued, so no later chunk is written, and
\* the measurement table still holds every chunk written before it.
C5_FailedChunkAborts ==
    \A k \in 1..Len(jobs) :
        (jobs[k].table = FactTable /\ jobs[k].state = "failed") =>
            /\ k = Len(jobs)
            /\ pc = "halt"
            /\ exit_code = 1
            /\ error = "UploadFailure"
            /\ jobs[k].rows = Batch(combined_df, batch_i, batch_size)
            /\ RowsFor(FactTable, cur) = SubSeq(combined_df, 1, batch_i * batch_size)

\* a chunk that is neither the first nor the last of its session has failed
C5_Witness ==
    /\ jobs # <<>>
    /\ jobs[Len(jobs)].table = FactTable
    /\ jobs[Len(jobs)].state = "failed"
    /\ batch_i >= 1
    /\ batch_i + 1 < num_batches
    /\ Len(RowsFor(FactTable, cur)) = batch_i * batch_size

\* the rows of the jobs, job after job
JobRows == Concat([k \in 1..Len(jobs) |-> jobs[k].rows])

\* C6: when upload_to_bigquery returns on n records and chunk size b >= 1,
\* it has written ceil(n / b) chunks, each of at most b records, and the
\* chunks in write order, end to end, are the n records in their order.
C6_ChunksPartitionRecords ==
    pc = "uploaded" =>
        LET n == Len(combined_df)
            b == batch_size
            c == Len(jobs)
        IN /\ c * b >= n
           /\ c > 0 => (c - 1) * b < n
           /\ \A k \in 1..c :
                 /\ jobs[k].table = FactTable
                 /\ jobs[k].state = "done"
                 /\ Len(jobs[k].rows) >= 1
                 /\ Len(jobs[k].rows) <= b
           /\ JobRows = combined_df
           /\ TableRows(jobs, FactTable) = combined_df

\* the uploader has returned after several chunks, the last one short
C6_Witness ==
    /\ pc = "uploaded"
    /\ Len(jobs) >= 2
    /\ Len(jobs[Len(jobs)].rows) < batch_size
    /\ Len(jobs[1].rows) = batch_size

\* C7: a subject-session that produces no measurement record (its files
\* missing, unparseable or without sample rows) ends as a no-op: the
\* metadata step does not run, nothing fails and no row is written.
C7_NoRecordsIsNoOp ==
    (FilesDone /\ Concat(all_data) = <<>>) =>
        /\ pc # "metadata_wait"
        /\ error = None
        /\ pc = "halt" => exit_code = 0
        /\ WritesFor(cur) = {}

\* the signal types a signal file yields
TypesOf(sig) == IF sig = "ACC" THEN {"ACC_X", "ACC_Y", "ACC_Z"} ELSE {sig}

RecordsOfSignal(df, sig) == SelectSeq(df, LAMBDA r : r.signal_type \in TypesOf(sig))

\* the kinds of file that are missing, fail to decode or raise in expansion
\* (the interval signal never divides by the sample rate)
FileFails(kind, sig) ==
    \/ kind \in {"missing", "garbage", "badcell"}
    \/ kind = "zerorate" /\ sig # "IBI"

\* the records a readable file of the kind holds: one per sample row, three
\* for the accelerometer
RecordCount(kind, sig) ==
    IF kind = "empty" THEN 0 ELSE IF sig = "ACC" THEN 3 * MaxRows ELSE MaxRows

\* C8: in a subject-session, a signal file that is missing, fails to decode
\* or raises during expansion contributes no record and every other file,
\* in the order BVP, EDA, TEMP, ACC, HR, IBI, contributes all of its
\* records to the set handed to the uploader.
C8_BadFileSkippedOthersLoaded ==
    FilesDone =>
        LET df == Concat(all_data) IN
        /\ \A sig \in Signals :
              Len(RecordsOfSignal(df, sig)) =
                  IF FileFails(fs[cur].files[sig], sig)
                  THEN 0
                  ELSE RecordCount(fs[cur].files[sig], sig)
        /\ df = Concat([k \in 1..Len(SignalOrder) |-> RecordsOfSignal(df, SignalOrder[k])])
        /\ pc \in {"upload", "upload_wait", "uploaded", "metadata_wait"} => combined_df = df
        /\ error \in {None, "UploadFailure", "KeyError"}

\* a file in the middle raised during expansion and the files after it are
\* in the set handed to the uploader
C8_Witness ==
    /\ FilesDone
    /\ pc = "upload"
    /\ fs[cur].files = OneOff("good", "TEMP", "badcell")
    /\ RecordsOfSignal(combined_df, "TEMP") = <<>>
    /\ Len(RecordsOfSignal(combined_df, "IBI")) = MaxRows
    /\ Len(RecordsOfSignal(combined_df, "ACC")) = 3 * MaxRows

\* C9: in a --load-all run, once a load job of subject k = subjects[si] has
\* failed the run is over, uncaught: the summary is not printed, and no
\* subject after k has been classified or has a row in a load job.
C9_UploadFailureHaltsBatch ==
    (args.load_all /\ \E k \in 1..Len(jobs) : jobs[k].state = "failed") =>
        /\ pc = "halt"
        /\ exit_code = 1
        /\ ~summary
        /\ si >= 1
        /\ cur = subjects[si]
        /\ classified = SubSeq(subjects, 1, si)
        /\ \A j \in (si + 1)..Len(subjects) : WritesFor(subjects[j]) = {}

\* a chunk of the first of two subjects has failed, and the second one has
\* a directory with data and no known issue that would skip it
C9_Witness ==
    /\ args.load_all
    /\ jobs # <<>>
    /\ jobs[Len(jobs)].state = "failed"
    /\ si = 1
    /\ Len(subjects) = 2
    /\ fs[subjects[2]].files["ACC"] = "good"
    /\ ~should_skip_subject(subjects[2], args.session_type, args.include_problematic).skip

\* C10: a run with neither --subject nor --load-all ends in the usage error,
\* exit status 1, having written nothing, whatever the dataset directory
\* holds.
C10_NoModeIsUsageError ==
    (~args.load_all /\ args.subject = None /\ pc = "halt") =>
        /\ error = "usage"
        /\ exit_code = 1
        /\ jobs = <<>>

\* the records of a session in the measurement table
SessionRecords(session_id) ==
    SelectSeq(TableRows(jobs, FactTable), LAMBDA r : r.session_id = session_id)

\* C11: for every metadata row handed to dim_sessions, session_start_time
\* and session_end_time are the least and the greatest timestamp of the
\* measurement records produced for the session, which are the records of
\* the session in the measurement table; so every such record lies between
\* the two.
C11_SessionSpansRecords ==
    \A k \in 1..Len(jobs) :
        jobs[k].table = DimTable =>
            LET row == jobs[k].rows[1]
                recs == SessionRecords(row.session_id)
            IN /\ recs # <<>>
               /\ row.subject_id = cur => recs = combined_df
               /\ \A i \in 1..Len(recs) :
                     /\ row.session_start_time <= recs[i].measurement_timestamp
                     /\ recs[i].measurement_timestamp <= row.session_end_time
               /\ \E i \in 1..Len(recs) :
                     recs[i].measurement_timestamp = row.session_start_time
               /\ \E i \in 1..Len(recs) :
                     recs[i].measurement_timestamp = row.session_end_time

\* a metadata row is in dim_sessions whose session ends later than its
\* last record and spans more than its first file
C11_Witness ==
    /\ jobs # <<>>
    /\ jobs[Len(jobs)].table = DimTable
    /\ jobs[Len(jobs)].state = "done"
    /\ combined_df[Len(combined_df)].measurement_timestamp
          < jobs[Len(jobs)].rows[1].session_end_time
    /\ jobs[Len(jobs)].rows[1].session_start_time
          < jobs[Len(jobs)].rows[1].session_end_time
    /\ Len(combined_df) > SessionBatchSize

\* the candidates that exist and hold the STRESS marker
Qualifying == {k \in 1..Len(roots) : roots[k] = "ok"}

\* C13: once the loader is constructed, the dataset root is the first
\* candidate, in the order of possible_paths, that exists and holds STRESS,
\* never a later one; the construction fails with FileNotFoundError exactly
\* when no candidate qualifies; and the search leaves the disk as it was.
C13_FirstQualifyingRoot ==
    /\ [](pc # "construct" =>
            /\ dataset_root = 0 <=> Qualifying = {}
            /\ dataset_root = 0 => pc = "halt" /\ error = "FileNotFoundError"
            /\ dataset_root # 0 =>
                  /\ dataset_root \in Qualifying
                  /\ \A j \in Qualifying : dataset_root <= j)
    /\ [][pc = "construct" =>
            /\ UNCHANGED disk
            /\ pc' = "halt" <=> Qualifying = {}]_vars

\* two candidates qualify and the loader holds the earlier one
C13_Witness ==
    /\ pc = "dispatch"
    /\ Cardinality(Qualifying) = 2
    /\ roots[1] # "ok"
    /\ dataset_root = 2

\* the session a load job writes for
JobSession(j) == j.rows[1].session_id

\* the positions of the measurement jobs of a session
ChunkJobs(session_id) ==
    {j \in 1..Len(jobs) : jobs[j].table = FactTable /\ JobSession(jobs[j]) = session_id}

\* C18: a metadata row is handed to dim_sessions only when every chunk of
\* the session's records has been written: all measurement jobs of the
\* session come before it and are done, they are as many as the chunks of
\* the records, and for the running session they hold combined_df whole; a
\* session with a failed chunk has no metadata row.
C18_MetadataAfterAllChunks ==
    /\ \A k \in 1..Len(jobs) :
          jobs[k].table = DimTable =>
              LET sid == JobSession(jobs[k])
                  written == SelectSeq(TableRows(SubSeq(jobs, 1, k - 1), FactTable),
                                       LAMBDA r : r.session_id = sid)
              IN /\ \A j \in ChunkJobs(sid) : j < k /\ jobs[j].state = "done"
                 /\ Cardinality(ChunkJobs(sid))
                      = (Len(written) + SessionBatchSize - 1) \div SessionBatchSize
                 /\ written # <<>>
                 /\ jobs[k].rows[1].subject_id = cur => written = combined_df
    /\ \A j \in 1..Len(jobs) :
          (jobs[j].table = FactTable /\ jobs[j].state = "failed") =>
              /\ pc = "halt"
              /\ j = Len(jobs)
              /\ \A k \in 1..Len(jobs) :
                    jobs[k].table = DimTable => JobSession(jobs[k]) # JobSession(jobs[j])

\* a metadata row follows the two chunks of its session, both written
C18_Witness ==
    /\ Len(jobs) >= 3
    /\ jobs[Len(jobs)].table = DimTable
    /\ Cardinality(ChunkJobs(JobSession(jobs[Len(jobs)]))) >= 2
    /\ \A j \in ChunkJobs(JobSession(jobs[Len(jobs)])) : jobs[j].state = "done"

\* the chunk writes issued and not yet ended
InFlight == {j \in 1..Len(jobs) : jobs[j].state = "running"}

\* C15: the write of chunk k + 1 is issued only when the write of chunk k
\* has ended in success: at most one write is in flight, it is the last one
\* issued and the uploader is waiting for it, every write before the last
\* is done, write j carries chunk j - 1, and the table holds the chunks
\* written so far in index order, a prefix of the records.
C15_ChunkWritesSequential ==
    /\ Cardinality(InFlight) <= 1
    /\ \A j \in InFlight : j = Len(jobs) /\ pc = "upload_wait"
    /\ \A j \in 1..(Len(jobs) - 1) : jobs[j].state = "done"
    /\ \A j \in 1..Len(jobs) :
          /\ jobs[j].table = FactTable
          /\ jobs[j].rows = Batch(combined_df, j - 1, batch_size)
    /\ Len(jobs) = batch_i + (IF pc \in {"upload_wait", "halt"} THEN 1 ELSE 0)
    /\ TableRows(jobs, FactTable)
          = SubSeq(combined_df, 1, Min(batch_i * batch_size, Len(combined_df)))

\* the third chunk is in flight and the two before it are in the table
C15_Witness ==
    /\ Len(jobs) = 3
    /\ InFlight = {3}
    /\ batch_i = 2
    /\ Len(TableRows(jobs, FactTable)) = 2 * batch_size
    /\ num_batches > 3

\* the signal file of the running subject-session, and its records among
\* those the files have yielded
CurFile(sig) == ReadFile(cur, sig)
CurRecords(sig) == RecordsOfSignal(Concat(all_data), sig)

\* float() accepts row 1 and every cell the expansion reads, and no sample
\* is stamped through a division by a zero rate
SamplesReadable(f, sig) ==
    /\ f.exists
    /\ f.rate.num
    /\ \A i \in 1..Len(f.rows) :
          RowOk(f.rows[i], IF sig = "ACC" THEN 3 ELSE IF sig = "IBI" THEN 2 ELSE 1)
    /\ sig # "IBI" => f.rate.v # 0

\* the seconds from the start of the file to its first sample
FirstOffset(f, sig) == IF sig = "IBI" THEN f.rows[1][1].v ELSE 0

\* C12: when the files of a subject-session have had their turn, a file
\* whose row 0 reads as a number starts at that number of epoch seconds,
\* also when the value reads as a datetime too; a file whose row 0 reads
\* only as a datetime starts at that datetime; a file whose row 0 reads as
\* neither makes the decoder fail with DataQualityError and yields no
\* record, and the run goes on: every other readable file has all its
\* records in the set, and the error never leaves the loop.
C12_StartTimeDecoding ==
    FilesDone =>
        /\ \A sig \in Signals :
              LET f == CurFile(sig)
                  fv == f.first_value
                  recs == CurRecords(sig)
              IN /\ (f.exists /\ ~fv.num /\ ~fv.date) =>
                       /\ parse_empatica_csv(f).err = "DataQualityError"
                       /\ recs = <<>>
                 /\ (SamplesReadable(f, sig) /\ (fv.num \/ fv.date)) =>
                       /\ Len(recs) = (IF sig = "ACC" THEN 3 ELSE 1) * Len(f.rows)
                       /\ recs[1].measurement_timestamp
                            = ((IF fv.num THEN fv.v ELSE fv.d) + FirstOffset(f, sig)) * Micro
        /\ error \in {None, "UploadFailure"}
        /\ pc = "halt" => jobs # <<>>

\* the EDA file has an unparseable start, the five other files are in the
\* set of records, and the run has returned them
C12_Witness ==
    /\ FilesDone
    /\ pc = "returned"
    /\ ~result.is_none
    /\ ~CurFile("EDA").first_value.num
    /\ ~CurFile("EDA").first_value.date
    /\ CurRecords("EDA") = <<>>
    /\ \A sig \in Signals \ {"EDA"} : CurRecords(sig) # <<>>

\* is p a prefix of s
IsPrefix(p, s) == Len(p) <= Len(s) /\ SubSeq(s, 1, Len(p)) = p

\* C14: the store is append-only. No step changes or removes a row of
\* either table; the step that ends a successful load adds one row to
\* dim_sessions; and when the same subject-session has been loaded N times
\* with success, dim_sessions holds N rows of the session and the
\* measurement table holds the session's records N times over, copy after
\* copy, each measurement_id N times.
C14_AppendOnly ==
    /\ [][/\ IsPrefix(TableRows(jobs, FactTable), TableRows(jobs', FactTable))
           /\ IsPrefix(TableRows(jobs, DimTable), TableRows(jobs', DimTable))
           /\ (pc = "metadata_wait" /\ pc' = "returned") =>
                 Len(TableRows(jobs', DimTable)) = Len(TableRows(jobs, DimTable)) + 1]_vars
    /\ [](pc = "returned" /\ ~result.is_none =>
            LET n == Len(classified)
                df == result.df
                fact == RowsFor(FactTable, cur)
                dim == RowsFor(DimTable, cur)
            IN /\ Len(dim) = n
               /\ \A i \in 1..Len(dim) : dim[i].session_id = df[1].session_id
               /\ Len(fact) = n * Len(df)
               /\ \A i \in 1..Len(fact) : fact[i] = df[((i - 1) % Len(df)) + 1]
               /\ \A r \in 1..Len(df) :
                     Cardinality({i \in 1..Len(fact) :
                         fact[i].measurement_id = df[r].measurement_id}) = n)

\* the subject-session has been loaded twice with success
C14_Witness ==
    /\ pc = "returned"
    /\ ~result.is_none
    /\ Len(classified) = 2
    /\ Len(RowsFor(DimTable, cur)) = 2
    /\ Len(RowsFor(FactTable, cur)) = 2 * Len(result.df)
    /\ Len(result.df) > SessionBatchSize

\* C16: the records of the interval file do not depend on its sample-rate
\* row: whatever row 1 holds, a file whose start and sample rows are
\* readable yields one record per sample row, record i stamped with the
\* start plus the offset of column 0 and valued with column 1.
C16_IntervalIgnoresRateRow ==
    FilesDone =>
        LET f == CurFile("IBI")
            fv == f.first_value
            start_time == (IF fv.num THEN fv.v ELSE fv.d) * Micro
        IN (/\ f.exists
            /\ fv.num \/ fv.date
            /\ \A i \in 1..Len(f.rows) : RowOk(f.rows[i], 2)) =>
               /\ Len(CurRecords("IBI")) = Len(f.rows)
               /\ \A i \in 1..Len(CurRecords("IBI")) :
                     /\ CurRecords("IBI")[i].measurement_timestamp
                          = start_time + f.rows[i][1].v * Micro
                     /\ CurRecords("IBI")[i].value = f.rows[i][2].v * 64

\* C17: a readable accelerometer file of n rows yields 3n records: row i
\* (from 0) yields the records 3i + 1, 3i + 2, 3i + 3, of ACC_X, ACC_Y and
\* ACC_Z in this order, the three stamped start + i / sample_rate, named
\* session_axis_i, and valued the raw cell of the axis divided by 64
\* (values are held in 64ths: raw / 64 is held as raw).
C17_TriaxialExpansion ==
    FilesDone =>
        LET f == CurFile("ACC")
            fv == f.first_value
            start_time == (IF fv.num THEN fv.v ELSE fv.d) * Micro
            recs == CurRecords("ACC")
        IN (SamplesReadable(f, "ACC") /\ (fv.num \/ fv.date)) =>
              /\ Len(recs) = 3 * Len(f.rows)
              /\ \A i \in 0..(Len(f.rows) - 1) : \A c \in 1..3 :
                    LET rec == recs[3 * i + c] IN
                    /\ rec.signal_type = <<"ACC_X", "ACC_Y", "ACC_Z">>[c]
                    /\ (rec.measurement_timestamp - start_time) * f.rate.v = i * Micro
                    /\ rec.measurement_id
                         = SessionId(cur, args.session_type) \o "_" \o rec.signal_type
                             \o "_" \o ToString(i)
                    /\ rec.value * AccScale = f.rows[i + 1][c].v * 64
                    /\ rec.session_id = SessionId(cur, args.session_type)
                    /\ rec.subject_id = cur

\* the accelerometer file is the only one of the directory, and its records
\* are handed to the uploader
C17_Witness ==
    /\ FilesDone
    /\ pc = "upload"
    /\ fs[cur].files = OneOff("missing", "ACC", "good")
    /\ Len(combined_df) = 3 * MaxRows
    /\ combined_df[3 * MaxRows].signal_type = "ACC_Z"
    /\ combined_df[3 * MaxRows].measurement_timestamp > GoodStart("ACC") * Micro

====
